---------------------------- MODULE Spec2Model ----------------------------
(***************************************************************************)
(* Model of src/scrap.PY: AdvancedWebScraper run by main() on an asyncio   *)
(* event loop.  One coroutine task per URL (extract_data) is launched by   *)
(* scrape_multiple_urls and joined with asyncio.gather.  A task is         *)
(* suspended only inside session.get (with the read of the body) and       *)
(* inside asyncio.sleep; everything between two suspension points is one   *)
(* atomic step of the event loop and is one action here.                   *)
(*                                                                         *)
(* Strings are abstracted by identity: the content string extracted from   *)
(* the element at position i of the page of URL u is the pair <<u, i>>     *)
(* (for images and links it stands for urljoin(u, attribute)).             *)
(***************************************************************************)
EXTENDS Integers, Sequences, FiniteSets, TLC

\* number of URLs the user may enter (main, input loop)
NumUrls == 2

\* fetch_url: max_retries = 3
max_retries == 3

AllUrls == 1..NumUrls

\* element kinds of a page body, as BeautifulSoup sees them
HeadingTags == {"h"}
ParagraphTags == {"p"}
ImgTags == {"img", "img_nosrc"}
AnchorTags == {"a", "a_nohref"}

\* The response bodies a server may deliver with status 200.  <<>> is the
\* empty string; <<"other">> is a non-empty body with nothing to extract.
Bodies ==
  { <<>>,
    <<"other">>,
    <<"h", "a_nohref", "a", "h">>,
    <<"img_nosrc", "p", "img">> }

VARIABLES
  mainPc,     \* position of main(): init, input, ready, gather, returned,
              \* displayed, raised, config_error
  dbUrl,      \* whether DB_URL is set in the environment
  urls,       \* the URLs entered (a prefix of AllUrls)
  pc,         \* per task: idle, get, sleep, success, failed, raised, cancelled
  retry,      \* per task: loop variable of fetch_url
  attempts,   \* per task: number of session.get calls issued
  last,       \* per task: outcome of the latest attempt: none, ok, status, exc
  delay,      \* per task: argument of the asyncio.sleep in progress, else 0
  fetched,    \* per task: what fetch_url returned: "pending", "body", "None"
  html,       \* per task: html_content when fetch_url returned a body
  rows,       \* committed rows of table scraped_data, in commit order
  pending,    \* rows inserted in the open transaction, not yet committed
  results,    \* self.results
  gatherExc   \* a task raised: asyncio.gather propagates to its awaiter

vars == <<mainPc, dbUrl, urls, pc, retry, attempts, last, delay, fetched,
          html, rows, pending, results, gatherExc>>

Keys == {"Headings", "Text", "Images", "Links"}

\* variant: images are appended to the list of links and links to images
KeyOf_swapped(category) ==
  CASE category = "Heading" -> "Headings"
    [] category = "Text"    -> "Text"
    [] category = "Image"   -> "Links"
    [] category = "Link"    -> "Images"

\* category label stored in the table -> key of self.results
KeyOf(category) ==
  CASE category = "Heading" -> "Headings"
    [] category = "Text"    -> "Text"
    [] category = "Image"   -> "Images"
    [] category = "Link"    -> "Links"

--------------------------------------------------------------------------
\* Extraction (extract_data, the four list comprehensions)

Positions(body) == [i \in 1..Len(body) |-> i]

\* soup.find_all(tags): positions of the matching elements, document order
find_all(body, tags) ==
  SelectSeq(Positions(body), LAMBDA i : body[i] \in tags)

\* variant: the list comprehension has no `if` filter
HasAttr_always(tag) == tag \in {"img", "a", "img_nosrc", "a_nohref"}

\* img.get("src") / link.get("href") is truthy
HasAttr(tag) == tag \in {"img", "a"}

MkItems(u, category, poss) ==
  [j \in 1..Len(poss) |->
     [url |-> u, category |-> category, content |-> <<u, poss[j]>>]]

headings(u, body) == MkItems(u, "Heading", find_all(body, HeadingTags))

paragraphs(u, body) == MkItems(u, "Text", find_all(body, ParagraphTags))

images(u, body) ==
  MkItems(u, "Image",
          SelectSeq(find_all(body, ImgTags), LAMBDA i : HasAttr(body[i])))

links(u, body) ==
  MkItems(u, "Link",
          SelectSeq(find_all(body, AnchorTags), LAMBDA i : HasAttr(body[i])))

\* variant: the links block is placed before the headings block
SinkPass_links_first(u, body) ==
  links(u, body) \o headings(u, body) \o paragraphs(u, body) \o images(u, body)

\* the insert/append calls of one page in the order extract_data issues them
SinkPass(u, body) ==
  headings(u, body) \o paragraphs(u, body) \o images(u, body) \o links(u, body)

--------------------------------------------------------------------------
\* Sink

\* self.cursor.execute(INSERT ...): the row joins the open transaction
execute(db, item) == [db EXCEPT !.pending = Append(@, item)]

\* self.conn.commit(): the open transaction becomes durable
commit(db) == [rows |-> db.rows \o db.pending, pending |-> <<>>]

\* variant: the commit is left out
insert_data_no_commit(db, item) == execute(db, item)

\* insert_data: INSERT then commit
insert_data(db, item) == commit(execute(db, item))

\* the storage part of the state of a sink pass
DbOf(st) == [rows |-> st.rows, pending |-> st.pending]

\* variant: the key is assigned a one-element list instead of appended to
append_result_overwrite(res, item) ==
  [res EXCEPT ![KeyOf(item.category)] = <<item.content>>]

\* variant: insert(-1, content) instead of append(content)
append_result_before_last(res, item) ==
  [res EXCEPT ![KeyOf(item.category)] =
     IF @ = <<>>
       THEN <<item.content>>
       ELSE SubSeq(@, 1, Len(@) - 1) \o <<item.content, @[Len(@)]>>]

\* self.results[key].append(content)
append_result(res, item) ==
  [res EXCEPT ![KeyOf(item.category)] = Append(@, item.content)]

\* variant: the append is made before insert_data is called
Record_append_first(st, item, dbOk) ==
  IF dbOk
    THEN [rows |-> insert_data(DbOf(st), item).rows,
          pending |-> insert_data(DbOf(st), item).pending,
          results |-> append_result(st.results, item),
          raised |-> FALSE]
    ELSE [rows |-> st.rows,
          pending |-> st.pending,
          results |-> append_result(st.results, item),
          raised |-> TRUE]

\* One insert_data call followed by the append; dbOk = the write succeeded.
\* When the write raises (in execute or in commit) nothing of it is
\* committed and the statement after it is not executed.
Record(st, item, dbOk) ==
  IF dbOk
    THEN [rows |-> insert_data(DbOf(st), item).rows,
          pending |-> insert_data(DbOf(st), item).pending,
          results |-> append_result(st.results, item),
          raised |-> FALSE]
    ELSE [rows |-> st.rows, pending |-> st.pending, results |-> st.results,
          raised |-> TRUE]

\* The for loops of extract_data over the items of one page; the first nOk
\* storage writes succeed, the next one (if any) raises and ends the pass.
RECURSIVE RecordAll(_, _, _, _)
RecordAll(items, k, nOk, st) ==
  IF k > Len(items) \/ st.raised
    THEN st
    ELSE RecordAll(items, k + 1, nOk, Record(st, items[k], k <= nOk))

--------------------------------------------------------------------------
\* fetch_url

\* variant: 2 * retry
Backoff_linear(r) == 2 * r

\* asyncio.sleep(2 ** retry)
Backoff(r) == 2 ^ r

\* variant: range(max_retries + 1)
HasNext_off_by_one(r) == r + 1 < max_retries + 1

\* for retry in range(max_retries): is there a next iteration
HasNext(r) == r + 1 < max_retries

\* variant: return None on any exception
LastRetry_always(r) == r <= max_retries - 1

\* except branch: if retry == max_retries - 1: return None
LastRetry(r) == r = max_retries - 1

Terminal == {"success", "failed", "raised", "cancelled"}

--------------------------------------------------------------------------
Init ==
  /\ mainPc = "init"
  /\ dbUrl \in BOOLEAN
  /\ urls = {}
  /\ pc = [u \in AllUrls |-> "idle"]
  /\ retry = [u \in AllUrls |-> 0]
  /\ attempts = [u \in AllUrls |-> 0]
  /\ last = [u \in AllUrls |-> "none"]
  /\ delay = [u \in AllUrls |-> 0]
  /\ fetched = [u \in AllUrls |-> "pending"]
  /\ html = [u \in AllUrls |-> <<>>]
  /\ rows = <<>>
  /\ pending = <<>>
  /\ results = [k \in Keys |-> <<>>]
  /\ gatherExc = FALSE

\* variant: setup_database does not test db_string
Construct_no_check ==
  /\ mainPc = "init"
  /\ mainPc' = "input"
  /\ UNCHANGED <<dbUrl, urls, pc, retry, attempts, last, delay, fetched,
                 html, rows, pending, results, gatherExc>>

\* main: scraper = AdvancedWebScraper(); setup_database raises ValueError
\* when DB_URL is missing, main prints it and ends
Construct ==
  /\ mainPc = "init"
  /\ mainPc' = IF dbUrl THEN "input" ELSE "config_error"
  /\ UNCHANGED <<dbUrl, urls, pc, retry, attempts, last, delay, fetched,
                 html, rows, pending, results, gatherExc>>

\* main: the input loop; it ends only with at least one URL
ReadUrls ==
  /\ mainPc = "input"
  /\ \E n \in 1..NumUrls : urls' = 1..n
  /\ mainPc' = "ready"
  /\ UNCHANGED <<dbUrl, pc, retry, attempts, last, delay, fetched, html,
                 rows, pending, results, gatherExc>>

\* scrape_multiple_urls up to the await of gather; every task then runs to
\* its first suspension point, the first session.get of fetch_url
Launch ==
  /\ mainPc = "ready"
  /\ mainPc' = "gather"
  /\ pc' = [u \in AllUrls |-> IF u \in urls THEN "get" ELSE pc[u]]
  /\ attempts' = [u \in AllUrls |-> IF u \in urls THEN 1 ELSE attempts[u]]
  /\ UNCHANGED <<dbUrl, urls, retry, last, delay, fetched, html, rows, pending,
                 results, gatherExc>>

\* the task may be resumed by the event loop
Running(u) == mainPc = "gather" /\ u \in urls

\* the next iteration of the for loop issues the next GET
NextGet(u) ==
  /\ retry' = [retry EXCEPT ![u] = @ + 1]
  /\ attempts' = [attempts EXCEPT ![u] = @ + 1]
  /\ delay' = [delay EXCEPT ![u] = 0]
  /\ pc' = [pc EXCEPT ![u] = "get"]
  /\ UNCHANGED <<fetched, html, rows, pending, results, gatherExc>>

\* variant: fetch_url has no except branch and the failure leaves the task
ReturnNone_raises(u) ==
  /\ delay' = [delay EXCEPT ![u] = 0]
  /\ fetched' = [fetched EXCEPT ![u] = "None"]
  /\ pc' = [pc EXCEPT ![u] = "raised"]
  /\ gatherExc' = TRUE
  /\ UNCHANGED <<retry, attempts, html, rows, pending, results>>

\* fetch_url returns None; extract_data logs "Failed to fetch content"
ReturnNone(u) ==
  /\ delay' = [delay EXCEPT ![u] = 0]
  /\ fetched' = [fetched EXCEPT ![u] = "None"]
  /\ pc' = [pc EXCEPT ![u] = "failed"]
  /\ UNCHANGED <<retry, attempts, html, rows, pending, results, gatherExc>>

\* variant: the body is read but not returned, the loop goes on
GetOk_no_return(u) ==
  /\ Running(u)
  /\ pc[u] = "get"
  /\ last' = [last EXCEPT ![u] = "ok"]
  /\ IF HasNext(retry[u])
       THEN NextGet(u)
       ELSE ReturnNone(u)
  /\ UNCHANGED <<mainPc, dbUrl, urls>>

\* status 200 and the body is read: fetch_url returns it, and extract_data
\* runs on without suspension: the truthiness test, the extraction and every
\* insert_data/append, up to its end or to the first storage error
GetOk(u) ==
  /\ Running(u)
  /\ pc[u] = "get"
  /\ \E body \in Bodies :
       /\ last' = [last EXCEPT ![u] = "ok"]
       /\ fetched' = [fetched EXCEPT ![u] = "body"]
       /\ html' = [html EXCEPT ![u] = body]
       /\ IF body # <<>>
            THEN \E nOk \in 0..Len(SinkPass(u, body)) :
                   LET st == RecordAll(SinkPass(u, body), 1, nOk,
                                       [rows |-> rows, pending |-> pending,
                                        results |-> results,
                                        raised |-> FALSE])
                   IN /\ rows' = st.rows
                      /\ pending' = st.pending
                      /\ results' = st.results
                      /\ pc' = [pc EXCEPT ![u] =
                                  IF st.raised THEN "raised" ELSE "success"]
                      /\ gatherExc' = (gatherExc \/ st.raised)
            ELSE /\ pc' = [pc EXCEPT ![u] = "failed"]
                 /\ UNCHANGED <<rows, pending, results, gatherExc>>
  /\ UNCHANGED <<mainPc, dbUrl, urls, retry, attempts, delay>>

\* variant: the status is not tested and the body of the response is used
GetStatus_as_body(u) ==
  /\ Running(u)
  /\ pc[u] = "get"
  /\ \E body \in Bodies \ {<<>>} :
       LET st == RecordAll(SinkPass(u, body), 1, Len(SinkPass(u, body)),
                           [rows |-> rows, pending |-> pending,
                            results |-> results, raised |-> FALSE])
       IN /\ last' = [last EXCEPT ![u] = "status"]
          /\ fetched' = [fetched EXCEPT ![u] = "body"]
          /\ html' = [html EXCEPT ![u] = body]
          /\ rows' = st.rows
          /\ pending' = st.pending
          /\ results' = st.results
          /\ pc' = [pc EXCEPT ![u] = "success"]
  /\ UNCHANGED <<mainPc, dbUrl, urls, retry, attempts, delay, gatherExc>>

\* a status other than 200: warning, then await asyncio.sleep(2 ** retry)
GetStatus(u) ==
  /\ Running(u)
  /\ pc[u] = "get"
  /\ last' = [last EXCEPT ![u] = "status"]
  /\ delay' = [delay EXCEPT ![u] = Backoff(retry[u])]
  /\ pc' = [pc EXCEPT ![u] = "sleep"]
  /\ UNCHANGED <<mainPc, dbUrl, urls, retry, attempts, fetched, html,
                 rows, pending, results, gatherExc>>

\* an exception inside the try block (raised by session.get or by the read
\* of the body, timeouts included): logged; return None on the last
\* iteration, otherwise the loop goes straight to its next iteration
GetExc(u) ==
  /\ Running(u)
  /\ pc[u] = "get"
  /\ last' = [last EXCEPT ![u] = "exc"]
  /\ IF LastRetry(retry[u])
       THEN ReturnNone(u)
       ELSE NextGet(u)
  /\ UNCHANGED <<mainPc, dbUrl, urls>>

\* asyncio.sleep returns: next iteration, or the loop is over: return None
SleepReturns(u) ==
  /\ Running(u)
  /\ pc[u] = "sleep"
  /\ IF HasNext(retry[u])
       THEN NextGet(u)
       ELSE ReturnNone(u)
  /\ UNCHANGED <<mainPc, dbUrl, urls, last>>

\* variant: the join is over only when every task has stored its page
GatherReturns_all_success ==
  /\ mainPc = "gather"
  /\ ~gatherExc
  /\ \A u \in urls : pc[u] = "success"
  /\ mainPc' = "returned"
  /\ UNCHANGED <<dbUrl, urls, pc, retry, attempts, last, delay, fetched,
                 html, rows, pending, results, gatherExc>>

\* gather: every task finished without raising; scrape_multiple_urls returns
GatherReturns ==
  /\ mainPc = "gather"
  /\ ~gatherExc
  /\ \A u \in urls : pc[u] \in {"success", "failed"}
  /\ mainPc' = "returned"
  /\ UNCHANGED <<dbUrl, urls, pc, retry, attempts, last, delay, fetched,
                 html, rows, pending, results, gatherExc>>

\* gather re-raises the first exception of a task in main, whatever the
\* other tasks are doing; main catches it, closes the database and ends
GatherRaises ==
  /\ mainPc = "gather"
  /\ gatherExc
  /\ mainPc' = "raised"
  /\ UNCHANGED <<dbUrl, urls, pc, retry, attempts, last, delay, fetched,
                 html, rows, pending, results, gatherExc>>

\* asyncio.run cancels the tasks still pending when main has ended
CancelPending ==
  /\ mainPc = "raised"
  /\ \E u \in urls : pc[u] \notin Terminal
  /\ pc' = [u \in AllUrls |->
              IF u \in urls /\ pc[u] \notin Terminal THEN "cancelled" ELSE pc[u]]
  /\ UNCHANGED <<mainPc, dbUrl, urls, retry, attempts, last, delay, fetched,
                 html, rows, pending, results, gatherExc>>

\* main after scrape_multiple_urls has returned: display_results and the
\* rest of the try block, then close_database
Report ==
  /\ mainPc = "returned"
  /\ mainPc' = "displayed"
  /\ UNCHANGED <<dbUrl, urls, pc, retry, attempts, last, delay, fetched,
                 html, rows, pending, results, gatherExc>>

Next ==
  \/ Construct
  \/ ReadUrls
  \/ Launch
  \/ \E u \in AllUrls : GetOk(u)
  \/ \E u \in AllUrls : GetStatus(u)
  \/ \E u \in AllUrls : GetExc(u)
  \/ \E u \in AllUrls : SleepReturns(u)
  \/ GatherReturns
  \/ GatherRaises
  \/ CancelPending
  \/ Report

Spec == Init /\ [][Next]_vars

\* one resumption of the task of URL u by the event loop
TaskStep(u) == GetOk(u) \/ GetStatus(u) \/ GetExc(u) \/ SleepReturns(u)

\* what main does on its own
MainStep ==
  Construct \/ ReadUrls \/ Launch \/ GatherReturns \/ GatherRaises
    \/ CancelPending \/ Report

\* The event loop runs every callback that is ready: a GET ends within its
\* timeout of 10 and a sleep ends, so a suspended task is resumed, and main
\* is resumed when gather is done.
FairSpec ==
  /\ Spec
  /\ WF_vars(MainStep)
  /\ \A u \in AllUrls : WF_vars(TaskStep(u))

--------------------------------------------------------------------------
\* Vocabulary of the properties

Range(f) == {f[i] : i \in DOMAIN f}

RowsOf(u) == SelectSeq(rows, LAMBDA r : r.url = u)

EntriesOf(u, k) == SelectSeq(results[k], LAMBDA c : c[1] = u)

\* what a page is expected to contribute, stated on the markup itself
CategoryOfTag == [h |-> "Heading", p |-> "Text", img |-> "Image", a |-> "Link"]

KeyOfTag == [h |-> "Headings", p |-> "Text", img |-> "Images", a |-> "Links"]

ExpectedPositions(body) == {i \in 1..Len(body) : body[i] \in DOMAIN CategoryOfTag}

Occurrences(seq, x) == Cardinality({i \in 1..Len(seq) : seq[i] = x})

\* the latest attempt of the task failed
LastFailed(u) == last[u] \in {"status", "exc"}

--------------------------------------------------------------------------
\* C1: partial failure.  When the batch call has returned, every item of a
\* page that was fetched has exactly one storage row and exactly one
\* aggregate entry, a URL that failed every attempt has no row and no
\* entry, and a failed fetch never makes a task (and so the batch) raise.
C1_PartialFailure ==
  /\ \A u \in AllUrls : last[u] # "ok" => pc[u] # "raised"
  /\ gatherExc => \E u \in urls : pc[u] = "raised" /\ last[u] = "ok"
  /\ mainPc = "returned" =>
       \A u \in urls :
         /\ fetched[u] \in {"body", "None"}
         /\ fetched[u] = "body" =>
              \A i \in ExpectedPositions(html[u]) :
                /\ Occurrences(rows, [url |-> u,
                                      category |-> CategoryOfTag[html[u][i]],
                                      content |-> <<u, i>>]) = 1
                /\ Occurrences(results[KeyOfTag[html[u][i]]], <<u, i>>) = 1
         /\ fetched[u] = "None" =>
              /\ LastFailed(u)
              /\ RowsOf(u) = <<>>
              /\ \A k \in Keys : EntriesOf(u, k) = <<>>

C1_Witness ==
  /\ mainPc = "returned"
  /\ \E u, v \in urls :
       /\ fetched[u] = "None"
       /\ last[u] = "exc"
       /\ attempts[u] = 3
       /\ pc[v] = "success"
       /\ Len(RowsOf(v)) = 3

--------------------------------------------------------------------------
\* C2: when the batch has finished (no storage error), the length of each
\* category's sequence in self.results is the sum over the pages of the
\* number of items the page contributes to the category, and no entry
\* occurs twice.
Contribution(u, k) ==
  Cardinality({i \in ExpectedPositions(html[u]) : KeyOfTag[html[u][i]] = k})

RECURSIVE SumContrib(_, _)
SumContrib(n, k) ==
  IF n = 0 THEN 0 ELSE Contribution(n, k) + SumContrib(n - 1, k)

C2_AggregateLengths ==
  mainPc = "returned" =>
    \A k \in Keys :
      /\ Len(results[k]) = SumContrib(Cardinality(urls), k)
      /\ \A i, j \in 1..Len(results[k]) : results[k][i] = results[k][j] => i = j

C2_Witness ==
  /\ mainPc = "returned"
  /\ \E u, v \in urls :
       /\ u # v
       /\ Contribution(u, "Headings") > 0
       /\ Contribution(v, "Headings") > 0
       /\ retry[u] = 2
       /\ retry[v] = 0
  /\ Len(results["Headings"]) = 4

--------------------------------------------------------------------------
\* C3: every storage row and every aggregate entry comes from a URL for
\* which an attempt has already returned 200, and a URL whose retries are
\* exhausted has no row and no entry.
C3_ItemsOnlyFromSuccessfulFetch ==
  /\ \A i \in 1..Len(rows) : last[rows[i].url] = "ok"
  /\ \A k \in Keys : \A i \in 1..Len(results[k]) : last[results[k][i][1]] = "ok"
  /\ \A u \in AllUrls :
       (fetched[u] = "None" \/ LastFailed(u)) =>
         /\ RowsOf(u) = <<>>
         /\ \A k \in Keys : EntriesOf(u, k) = <<>>

C3_Witness ==
  /\ rows # <<>>
  /\ \E u \in urls : fetched[u] = "None" /\ attempts[u] = 3

--------------------------------------------------------------------------
\* C4: the aggregate holds exactly the items whose storage write succeeded;
\* when a write fails the task raises to its caller (gather), and the item
\* whose write failed is not in self.results.
ContentsFor(k) ==
  LET sel == SelectSeq(rows, LAMBDA r : KeyOf(r.category) = k)
  IN [i \in 1..Len(sel) |-> sel[i].content]

C4_NoUnstoredItemInAggregate ==
  /\ \A k \in Keys : results[k] = ContentsFor(k)
  /\ \A u \in AllUrls :
       pc[u] = "raised" =>
         /\ gatherExc
         /\ mainPc # "returned"
         /\ Len(RowsOf(u)) < Len(SinkPass(u, html[u]))
         /\ LET item == SinkPass(u, html[u])[Len(RowsOf(u)) + 1]
            IN item.content \notin Range(results[KeyOf(item.category)])

C4_Witness ==
  \E u \in urls : pc[u] = "raised" /\ Len(RowsOf(u)) = 2

--------------------------------------------------------------------------
\* C5: a URL whose every attempt fails, by status or by exception in any
\* mix, gets exactly max_retries (3) GETs and then None: fetch_url returns
\* None only after the third GET has failed, an exception ends the loop
\* only at the third attempt, and a finished task whose third attempt
\* failed has got None.
C5_ExactlyMaxRetriesThenNone ==
  \A u \in AllUrls :
    /\ fetched[u] = "None" =>
         /\ attempts[u] = 3
         /\ LastFailed(u)
         /\ pc[u] = "failed"
    /\ (LastFailed(u) /\ attempts[u] < 3) => pc[u] \in {"get", "sleep", "cancelled"}
    /\ (LastFailed(u) /\ pc[u] \in {"success", "failed", "raised"}) =>
         /\ fetched[u] = "None"
         /\ attempts[u] = 3

C5_Witness ==
  \E u, v \in urls :
    /\ fetched[u] = "None" /\ last[u] = "exc"
    /\ fetched[v] = "None" /\ last[v] = "status"

--------------------------------------------------------------------------
\* C6: short-circuit.  The step in which an attempt returns 200 with its
\* body makes fetch_url return that body without a further GET or sleep,
\* and no step after it issues a GET for the URL.  When it is the first
\* attempt, the URL has had exactly one GET, and no sleep: a task sleeps
\* only after an attempt that returned a non-200 status.
C6_ShortCircuitOnOk ==
  [][\A u \in AllUrls :
       /\ last'[u] = "ok" =>
            /\ attempts'[u] = attempts[u]
            /\ retry'[u] = retry[u]
            /\ pc'[u] \notin {"get", "sleep"}
            /\ fetched'[u] = "body"
       /\ (last[u] = "ok" /\ fetched[u] = "body") =>
            /\ fetched'[u] = "body"
            /\ html'[u] = html[u]
       /\ (last'[u] = "ok" /\ retry'[u] = 0) =>
            /\ attempts'[u] = 1
            /\ last[u] \in {"none", "ok"}
       /\ pc'[u] = "sleep" => last'[u] = "status"
    ]_vars

C6_Witness ==
  \E u \in urls :
    /\ pc[u] = "success"
    /\ last[u] = "ok"
    /\ retry[u] = 0
    /\ attempts[u] = 1

--------------------------------------------------------------------------
\* C7: the number of fetch attempts made for a URL never exceeds 3.
C7_AttemptsWithinCeiling ==
  \A u \in AllUrls :
    /\ attempts[u] <= 3
    /\ retry[u] <= 2
    /\ pc[u] # "idle" => attempts[u] = retry[u] + 1

C7_Witness ==
  \E u \in urls : attempts[u] = 3 /\ pc[u] = "get"

--------------------------------------------------------------------------
\* C8: the GET of attempt k (k = 1, 2) that follows an attempt with a
\* non-200 status is issued when a sleep of 2^(k-1) returns: 1 before
\* attempt 1, 2 before attempt 2.
ExpectedDelayBefore == <<1, 2>>

C8_BackoffDelays ==
  [][\A u \in AllUrls :
       (attempts'[u] = attempts[u] + 1 /\ last'[u] = "status") =>
         /\ pc[u] = "sleep"
         /\ retry'[u] \in {1, 2}
         /\ delay[u] = ExpectedDelayBefore[retry'[u]]
    ]_vars

C8_Witness ==
  \E u \in urls : pc[u] = "get" /\ retry[u] = 2 /\ last[u] = "status"

--------------------------------------------------------------------------
\* C9: when attempt a of fetch_url fails with an exception and attempts
\* remain, the next GET for the URL is issued only when a sleep of 2^a
\* returns.
C9_BackoffAfterException ==
  [][\A u \in AllUrls :
       (attempts'[u] = attempts[u] + 1 /\ last'[u] = "exc") =>
         /\ pc[u] = "sleep"
         /\ delay[u] = 2 ^ retry[u]
    ]_vars

--------------------------------------------------------------------------
\* C10: a backoff sleep occurs only when attempts remain: no task sleeps
\* after its final (third) attempt.
C10_SleepOnlyWhenAttemptsRemain ==
  \A u \in AllUrls : pc[u] = "sleep" => attempts[u] < max_retries

--------------------------------------------------------------------------
\* control has left scrape_multiple_urls, by return or by raise
LeftBatch == mainPc \in {"returned", "displayed", "raised"}

\* C11: fan-in.  Control leaves scrape_multiple_urls, by return or by
\* raise, only when every task it launched is in a terminal state.
C11_FanIn ==
  LeftBatch => \A u \in urls : pc[u] \in Terminal

--------------------------------------------------------------------------
\* C12: a storage write error in the task of one URL leaves the other
\* URLs alone: none of them is cancelled, each one that ends has all its
\* items recorded, and the batch call does not end by raising, so main
\* goes on to display_results.
C12_StorageErrorIsolated ==
  \A u \in urls :
    pc[u] = "raised" =>
      /\ mainPc # "raised"
      /\ \A v \in urls \ {u} :
           /\ pc[v] # "cancelled"
           /\ pc[v] = "success" =>
                Len(RowsOf(v)) = Cardinality(ExpectedPositions(html[v]))

--------------------------------------------------------------------------
\* C13: termination.  Under fair scheduling, once the tasks are launched
\* every task reaches a terminal state and control leaves
\* scrape_multiple_urls, whatever the outcomes of the fetch attempts; when
\* no storage write fails it leaves by returning, with every task ended in
\* success or in a failed fetch.
C13_Termination ==
  /\ (mainPc = "gather") ~>
       (mainPc # "gather" /\ \A u \in urls : pc[u] \in Terminal)
  /\ (mainPc = "gather") ~>
       (gatherExc \/ (mainPc = "returned"
                        /\ \A u \in urls : pc[u] \in {"success", "failed"}))

C13_Witness ==
  /\ mainPc = "returned"
  /\ \E u, v \in urls :
       /\ pc[u] = "failed" /\ attempts[u] = 3 /\ last[u] = "status"
       /\ pc[v] = "success" /\ attempts[v] = 3

--------------------------------------------------------------------------
\* C14: the record calls of a URL are issued category by category in the
\* order Heading, Text, Image, Link, one per extracted item, and within a
\* category in document order.
CategoryRank == [Heading |-> 1, Text |-> 2, Image |-> 3, Link |-> 4]

C14_RecordOrder ==
  \A u \in AllUrls :
    LET r == RowsOf(u)
    IN /\ \A i, j \in 1..Len(r) :
            i < j =>
              /\ CategoryRank[r[i].category] <= CategoryRank[r[j].category]
              /\ r[i].category = r[j].category =>
                   r[i].content[2] < r[j].content[2]
       /\ \A i \in 1..Len(r) :
            /\ r[i].content[2] \in ExpectedPositions(html[u])
            /\ r[i].category = CategoryOfTag[html[u][r[i].content[2]]]
       /\ pc[u] = "success" =>
            Len(r) = Cardinality(ExpectedPositions(html[u]))

C14_Witness ==
  \E u \in urls :
    /\ pc[u] = "success"
    /\ RowsOf(u) = <<[url |-> u, category |-> "Heading", content |-> <<u, 1>>],
                     [url |-> u, category |-> "Heading", content |-> <<u, 4>>],
                     [url |-> u, category |-> "Link", content |-> <<u, 3>>]>>

--------------------------------------------------------------------------
\* C15: writes on the shared connection are serialized and committed one
\* at a time: no step of the program leaves an insert uncommitted (so no
\* task is suspended, and none goes to its next item, with its insert
\* pending), and the rows a step commits are appended after the committed
\* rows and all belong to the one task that took the step.
C15_SerializedCommittedWrites ==
  [][/\ pending' = <<>>
     /\ Len(rows') >= Len(rows)
     /\ SubSeq(rows', 1, Len(rows)) = rows
     /\ rows' # rows =>
          \E u \in urls :
            /\ pc[u] = "get"
            /\ pc'[u] \in {"success", "raised"}
            /\ \A i \in (Len(rows) + 1)..Len(rows') : rows'[i].url = u
    ]_vars

C15_Witness ==
  /\ pending = <<>>
  /\ \E i, j \in 1..Len(rows) : rows[i].url # rows[j].url

--------------------------------------------------------------------------
--------------------------------------------------------------------------
\* C17: with DB_URL missing the constructor raises before anything else:
\* no URL is read, no GET is issued, nothing is written to storage or to
\* the aggregate.
C17_ConfigErrorIsFatalAtStartup ==
  ~dbUrl =>
    /\ mainPc \in {"init", "config_error"}
    /\ urls = {}
    /\ \A u \in AllUrls : attempts[u] = 0 /\ pc[u] = "idle"
    /\ rows = <<>>
    /\ pending = <<>>
    /\ \A k \in Keys : results[k] = <<>>

C17_Witness == ~dbUrl /\ mainPc = "config_error"

--------------------------------------------------------------------------
\* C18: a task takes the 'Failed to fetch content' branch only if its
\* retries were exhausted; once an attempt has returned 200, whatever the
\* body, the task extracts and records (and ends in success unless a
\* storage write raises).
C18_FailureOnlyOnExhaustion ==
  \A u \in AllUrls :
    /\ pc[u] = "failed" => (fetched[u] = "None" /\ attempts[u] = 3)
    /\ last[u] = "ok" => pc[u] \in {"success", "raised"}

--------------------------------------------------------------------------
\* C19: in each category's sequence of self.results the entries of one
\* page form one contiguous block, in document order.
IndicesOf(u, k) == {i \in 1..Len(results[k]) : results[k][i][1] = u}

C19_ContiguousBlocks ==
  \A k \in Keys : \A u \in AllUrls :
    \A i, j \in IndicesOf(u, k) :
      i < j =>
        /\ \A m \in i..j : m \in IndicesOf(u, k)
        /\ results[k][i][2] < results[k][j][2]

C19_Witness ==
  \E u, v \in urls :
    /\ u # v
    /\ results["Headings"] = <<<<u, 1>>, <<u, 4>>, <<v, 1>>, <<v, 4>>>>
    /\ retry[v] = 0
    /\ retry[u] = 1

--------------------------------------------------------------------------
\* C20: storage and aggregate stay in step.  In every state (each is a
\* point where every task is suspended or finished) the committed rows and
\* the entries of self.results correspond one to one, with equal content,
\* rows of category Heading, Text, Image, Link under the keys Headings,
\* Text, Images, Links; also after a storage write error.
KeyOfCategory ==
  [Heading |-> "Headings", Text |-> "Text", Image |-> "Images", Link |-> "Links"]

RECURSIVE TotalLen(_)
TotalLen(ks) ==
  IF ks = {} THEN 0
  ELSE LET k == CHOOSE x \in ks : TRUE
       IN Len(results[k]) + TotalLen(ks \ {k})

C20_StorageAndAggregateInStep ==
  /\ DOMAIN results = Keys
  /\ \A i \in 1..Len(rows) :
       /\ rows[i].category \in DOMAIN KeyOfCategory
       /\ Occurrences(results[KeyOfCategory[rows[i].category]], rows[i].content) = 1
       /\ Occurrences(rows, rows[i]) = 1
  /\ TotalLen(Keys) = Len(rows)

C20_Witness ==
  /\ \E u \in urls : pc[u] = "raised" /\ Len(RowsOf(u)) = 1
  /\ \E v \in urls : pc[v] = "success" /\ Len(RowsOf(v)) = 2
  /\ results["Images"] # <<>>

==========================================================================
